---- MODULE Spec2Model ----
(***************************************************************************)
(* convert_to_onnx.py: load a YOLO checkpoint, export it to ONNX, report   *)
(* the outcome on the console.                                             *)
(*                                                                         *)
(* One state machine step per statement of the script.  The program       *)
(* counter pc names the source line about to execute ("L13" is the        *)
(* YOLO(...) call of line 13).  The ultralytics library is a black box:    *)
(* every call either returns or raises, and what it raises is chosen       *)
(* nondeterministically among the exception classes listed below.          *)
(* The working directory, the installed packages and the console are the   *)
(* environment; the script may be run more than once in the same           *)
(* directory (Rerun).                                                      *)
(***************************************************************************)
EXTENDS Naturals, Sequences, FiniteSets, TLC

VARIABLES
    pc,           \* source line about to execute, or "done" / "crashed"
    fs,           \* working directory: file name -> content
    libInstalled, \* is the ultralytics package importable
    model,        \* the module-level name `model` (line 13), or None
    exc,          \* the exception in flight, or None
    stdout,       \* lines printed by this run
    stderr,       \* lines the interpreter printed for this run
    calls,        \* library calls made by this run, with their results
    exitStatus,   \* process exit status of this run, or None while running
    run,          \* number of the current run (1-based)
    prev,         \* summary of the previous run in this directory
    startFs       \* the working directory as this run found it

vars == <<pc, fs, libInstalled, model, exc, stdout, stderr, calls,
          exitStatus, run, prev, startFs>>

\* Number of times the script is run in the same working directory.
MaxRuns == 2

None == [type |-> "None", msg |-> ""]
\* The result of a library call that returned.
Ok == [type |-> "ok", msg |-> ""]
NoModel == <<>>

(***************************************************************************)
(* File names.  A name is <<stem, suffix>> so that the library's           *)
(* Path.with_suffix can be computed rather than assumed.                   *)
(***************************************************************************)
pytorch_model_file == <<"model", ".pt">>
onnx_model_file == <<"stockmarket-pattern-detection-yolov8", ".onnx">>

Str(p) == p[1] \o p[2]
WithSuffix(p, s) == <<p[1], s>>

\* The keyword arguments of the export call of line 19.  No file name is
\* among them.
ExportArgs == [format |-> "onnx", imgsz |-> 640]

\* Where the library writes the exported model: next to the checkpoint the
\* model was loaded from, with the suffix of the format.  It is a function
\* of what line 13 and line 19 pass to the library and of nothing else.
ExportFile(m, args) == WithSuffix(m.ckpt, "." \o args.format)

\* Mutant: a writer that never clobbers and saves under a fresh name.
WriteFile_NoClobber(dir, name, content) ==
    LET target == IF name \in DOMAIN dir THEN <<name[1] \o " (1)", name[2]>> ELSE name
    IN  [n \in DOMAIN dir \cup {target} |-> IF n = target THEN content ELSE dir[n]]

\* Opening a file for writing truncates an existing file of that name.
WriteFile(dir, name, content) ==
    [n \in DOMAIN dir \cup {name} |-> IF n = name THEN content ELSE dir[n]]

(***************************************************************************)
(* Exception classes and the except-clause dispatch of lines 26-38.        *)
(***************************************************************************)
Parent(cls) ==
    CASE cls = "FileNotFoundError"   -> "OSError"
      [] cls = "PermissionError"     -> "OSError"
      [] cls = "OSError"             -> "Exception"
      [] cls = "ModuleNotFoundError" -> "ImportError"
      [] cls = "ImportError"         -> "Exception"
      [] cls = "RuntimeError"        -> "Exception"
      [] cls = "Exception"           -> "BaseException"
      [] OTHER                       -> "object"

RECURSIVE IsInstance(_, _)
IsInstance(cls, of) ==
    IF cls = of THEN TRUE
    ELSE IF cls \in {"object", "None"} THEN FALSE
    ELSE IsInstance(Parent(cls), of)

\* The except clauses in source order; the first one that matches wins.
ExceptClauses == <<"FileNotFoundError", "ImportError", "Exception">>

RECURSIVE FirstMatch(_, _, _)
FirstMatch(cls, clauses, i) ==
    IF i > Len(clauses) THEN "none"
    ELSE IF IsInstance(cls, clauses[i]) THEN clauses[i]
    ELSE FirstMatch(cls, clauses, i + 1)

\* Mutant: the generic clause written first.
HandlerFor_GenericFirst(cls) ==
    FirstMatch(cls, <<"Exception", "FileNotFoundError", "ImportError">>, 1)

HandlerFor(cls) == FirstMatch(cls, ExceptClauses, 1)

\* The statements the try of line 10 guards: lines 12-24.
InTry(line) == line \in {"L12", "L13", "L14", "L18", "L19", "L21"}

\* Where control goes when the statement at `line` completes.
Succ(line) ==
    CASE line = "L1"  -> "L12"
      [] line = "L12" -> "L13"
      [] line = "L13" -> "L14"
      [] line = "L14" -> "L18"
      [] line = "L18" -> "L19"
      [] line = "L19" -> "L21"
      [] line = "L21" -> "end"
      [] OTHER        -> "end"

\* Mutant: the exception is swallowed and the script carries on.
OnRaise_FallThrough(line, cls) == Succ(line)

\* Where control goes when the statement at `line` raises an exception of
\* class cls: to the except clauses if the try guards the statement and one
\* of them matches, out of the script otherwise.
OnRaise(line, cls) ==
    IF InTry(line) /\ HandlerFor(cls) # "none" THEN "except" ELSE "uncaught"

\* Mutant: the success banner placed after the try statement.
AfterHandler_FallsToBanner == "L21"

\* Mutant: the handler starts the conversion over.
AfterHandler_Retry == "L12"

\* Where control goes when an except clause of lines 26-41 has run.
AfterHandler == "end"

(***************************************************************************)
(* Console text.  print("\n...") is a blank line followed by the text.     *)
(***************************************************************************)
LoadingMsg == <<"Loading PyTorch model: " \o Str(pytorch_model_file) \o "...">>
LoadedMsg == <<"Model loaded successfully.">>
ExportingMsg == <<"Exporting model to ONNX: " \o Str(onnx_model_file) \o "...">>
SuccessBanner ==
    << "", "---",
       "Success! '" \o Str(onnx_model_file) \o "' has been created.",
       "You can now run your MATLAB backtester.",
       "---" >>
MissingInputDiag ==
    << "", "--- ERROR ---",
       "File not found: " \o Str(pytorch_model_file),
       "Please download 'model.pt' from the GitHub repository",
       "and place it in the same folder as this script.",
       "---" >>
MissingDependencyDiag ==
    << "", "--- ERROR ---",
       "The 'ultralytics' library is not found.",
       "Please install it by running:",
       "pip install ultralytics",
       "---" >>
\* Mutant: the class of the exception printed in place of its message.
UnclassifiedDiag_ClassName(e) == << "", "--- AN ERROR OCCURRED ---", e.type, "---" >>

UnclassifiedDiag(e) == << "", "--- AN ERROR OCCURRED ---", e.msg, "---" >>

Traceback(e) ==
    << "Traceback (most recent call last):", e.type \o ": " \o e.msg >>

(***************************************************************************)
(* What the library can do.                                                *)
(***************************************************************************)
\* Contents a file named model.pt may have.
CheckpointStates == {"valid", "invalid"}

\* A checkpoint that is present but cannot be unpickled into a model: the
\* archive is corrupt, or it names a module that is not installed.
InvalidCheckpointErrors ==
    { [type |-> "RuntimeError", msg |-> "invalid load key"],
      [type |-> "RuntimeError", msg |-> "PytorchStreamReader failed reading zip archive"],
      [type |-> "ModuleNotFoundError", msg |-> "No module named 'models'"] }

MissingCheckpointError ==
    [type |-> "FileNotFoundError",
     msg |-> "No such file or directory: '" \o Str(pytorch_model_file) \o "'"]

\* Failures of the export of a loaded model: an export dependency missing,
\* a file the exporter needs absent, the directory not writable, the graph
\* not traceable.
ExportErrors ==
    { [type |-> "FileNotFoundError", msg |-> "No such file or directory: 'onnxslim'"],
      [type |-> "ImportError", msg |-> "cannot import name 'onnx'"],
      [type |-> "PermissionError", msg |-> "Permission denied"],
      [type |-> "RuntimeError", msg |-> "ONNX export failure"] }

LibraryMissingError ==
    [type |-> "ModuleNotFoundError", msg |-> "No module named 'ultralytics'"]

Exists(name) == name \in DOMAIN fs

(***************************************************************************)
(* Initial state: an empty working directory or one holding model.pt.      *)
(***************************************************************************)
EmptyDir == [n \in {} |-> "valid"]

Init ==
    /\ pc = "L1"
    /\ \/ fs = EmptyDir
       \/ \E c \in CheckpointStates : fs = WriteFile(EmptyDir, pytorch_model_file, c)
    /\ libInstalled \in BOOLEAN
    /\ model = NoModel
    /\ exc = None
    /\ stdout = <<>>
    /\ stderr = <<>>
    /\ calls = <<>>
    /\ exitStatus = "None"
    /\ run = 1
    /\ prev = "none"
    /\ startFs = fs

Raise(line, e) ==
    /\ exc' = e
    /\ pc' = OnRaise(line, e.type)

\* Line 1: from ultralytics import YOLO   (lines 5 and 8 bind constants)
Import ==
    /\ pc = "L1"
    /\ IF libInstalled
         THEN pc' = Succ("L1") /\ exc' = exc
         ELSE Raise("L1", LibraryMissingError)
    /\ UNCHANGED <<fs, libInstalled, model, stdout, stderr, calls,
                   exitStatus, run, prev, startFs>>

\* Line 12
PrintLoading ==
    /\ pc = "L12"
    /\ stdout' = stdout \o LoadingMsg
    /\ pc' = Succ("L12")
    /\ UNCHANGED <<fs, libInstalled, model, exc, stderr, calls,
                   exitStatus, run, prev, startFs>>

LoadCall(result) == [op |-> "YOLO", args |-> <<Str(pytorch_model_file)>>, result |-> result]

\* Line 13: model = YOLO(pytorch_model_file)
Load ==
    /\ pc = "L13"
    /\ \/ /\ ~Exists(pytorch_model_file)
          /\ calls' = Append(calls, LoadCall(MissingCheckpointError))
          /\ Raise("L13", MissingCheckpointError)
          /\ model' = model
       \/ /\ Exists(pytorch_model_file)
          /\ fs[pytorch_model_file] = "invalid"
          /\ \E e \in InvalidCheckpointErrors :
                /\ calls' = Append(calls, LoadCall(e))
                /\ Raise("L13", e)
          /\ model' = model
       \/ /\ Exists(pytorch_model_file)
          /\ fs[pytorch_model_file] = "valid"
          /\ calls' = Append(calls, LoadCall(Ok))
          /\ model' = [ckpt |-> pytorch_model_file]
          /\ pc' = Succ("L13")
          /\ exc' = exc
    /\ UNCHANGED <<fs, libInstalled, stdout, stderr, exitStatus, run, prev, startFs>>

\* Line 14
PrintLoaded ==
    /\ pc = "L14"
    /\ stdout' = stdout \o LoadedMsg
    /\ pc' = Succ("L14")
    /\ UNCHANGED <<fs, libInstalled, model, exc, stderr, calls,
                   exitStatus, run, prev, startFs>>

\* Line 18
PrintExporting ==
    /\ pc = "L18"
    /\ stdout' = stdout \o ExportingMsg
    /\ pc' = Succ("L18")
    /\ UNCHANGED <<fs, libInstalled, model, exc, stderr, calls,
                   exitStatus, run, prev, startFs>>

ExportCall(result) == [op |-> "export", args |-> ExportArgs, result |-> result]

\* Line 19: model.export(format='onnx', imgsz=640)
Export ==
    /\ pc = "L19"
    /\ \/ /\ fs' = WriteFile(fs, ExportFile(model, ExportArgs), "onnx")
          /\ calls' = Append(calls, ExportCall(Ok))
          /\ pc' = Succ("L19")
          /\ exc' = exc
       \/ /\ \E e \in ExportErrors :
                /\ calls' = Append(calls, ExportCall(e))
                /\ Raise("L19", e)
          /\ fs' = fs
    /\ UNCHANGED <<libInstalled, model, stdout, stderr, exitStatus, run, prev, startFs>>

\* Lines 21-24
PrintSuccess ==
    /\ pc = "L21"
    /\ stdout' = stdout \o SuccessBanner
    /\ pc' = Succ("L21")
    /\ UNCHANGED <<fs, libInstalled, model, exc, stderr, calls,
                   exitStatus, run, prev, startFs>>

\* Lines 26-31: except FileNotFoundError
HandleFileNotFound ==
    /\ pc = "except"
    /\ HandlerFor(exc.type) = "FileNotFoundError"
    /\ stdout' = stdout \o MissingInputDiag
    /\ exc' = None
    /\ pc' = AfterHandler
    /\ UNCHANGED <<fs, libInstalled, model, stderr, calls,
                   exitStatus, run, prev, startFs>>

\* Lines 32-37: except ImportError
HandleImportError ==
    /\ pc = "except"
    /\ HandlerFor(exc.type) = "ImportError"
    /\ stdout' = stdout \o MissingDependencyDiag
    /\ exc' = None
    /\ pc' = AfterHandler
    /\ UNCHANGED <<fs, libInstalled, model, stderr, calls,
                   exitStatus, run, prev, startFs>>

\* Lines 38-41: except Exception as e
HandleException ==
    /\ pc = "except"
    /\ HandlerFor(exc.type) = "Exception"
    /\ stdout' = stdout \o UnclassifiedDiag(exc)
    /\ exc' = None
    /\ pc' = AfterHandler
    /\ UNCHANGED <<fs, libInstalled, model, stderr, calls,
                   exitStatus, run, prev, startFs>>

\* An exception no except clause of the script takes: the interpreter
\* prints the traceback and the process exits with status 1.
Uncaught ==
    /\ pc = "uncaught"
    /\ stderr' = stderr \o Traceback(exc)
    /\ exitStatus' = "1"
    /\ pc' = "crashed"
    /\ UNCHANGED <<fs, libInstalled, model, exc, stdout, calls, run, prev, startFs>>

\* End of the script: the interpreter exits with status 0.
Exit ==
    /\ pc = "end"
    /\ exitStatus' = "0"
    /\ pc' = "done"
    /\ UNCHANGED <<fs, libInstalled, model, exc, stdout, stderr, calls,
                   run, prev, startFs>>

Terminated == pc \in {"done", "crashed"}

Printed(text) ==
    \E i \in 0..Len(stdout) :
        /\ i + Len(text) <= Len(stdout)
        /\ SubSeq(stdout, i + 1, i + Len(text)) = text

Succeeded == Printed(SuccessBanner)

\* The script is run again in the same directory, with the same packages.
Rerun ==
    /\ Terminated
    /\ run < MaxRuns
    /\ run' = run + 1
    /\ prev' = IF Succeeded THEN "success" ELSE "failure"
    /\ startFs' = fs
    /\ pc' = "L1"
    /\ model' = NoModel
    /\ exc' = None
    /\ stdout' = <<>>
    /\ stderr' = <<>>
    /\ calls' = <<>>
    /\ exitStatus' = "None"
    /\ UNCHANGED <<fs, libInstalled>>

Step ==
    \/ Import
    \/ PrintLoading
    \/ Load
    \/ PrintLoaded
    \/ PrintExporting
    \/ Export
    \/ PrintSuccess
    \/ HandleFileNotFound
    \/ HandleImportError
    \/ HandleException
    \/ Uncaught
    \/ Exit

Next == Step \/ Rerun

Spec == Init /\ [][Next]_vars

\* The interpreter runs the script to its end: a statement that can execute
\* does execute.  Running the script again is up to the user.
LiveSpec == Init /\ [][Next]_vars /\ WF_vars(Step)

(***************************************************************************)
(* Observations of a run.                                                  *)
(***************************************************************************)
CallsOf(op) == {i \in 1..Len(calls) : calls[i].op = op}
LoadAttempts == Cardinality(CallsOf("YOLO"))
ExportAttempts == Cardinality(CallsOf("export"))
LoadReturned == \E i \in CallsOf("YOLO") : calls[i].result = Ok
LoadRaised == \E i \in CallsOf("YOLO") : calls[i].result # Ok
ExportReturned == \E i \in CallsOf("export") : calls[i].result = Ok
ExportRaised == \E i \in CallsOf("export") : calls[i].result # Ok

\* Files of the directory that hold an exported model.
Artifacts(dir) == {n \in DOMAIN dir : dir[n] = "onnx"}

\* The line that identifies each of the four outcome messages.
SuccessLine == "Success! 'stockmarket-pattern-detection-yolov8.onnx' has been created."
MissingInputLine == "File not found: model.pt"
MissingDependencyLine == "pip install ultralytics"
UnclassifiedLine == "--- AN ERROR OCCURRED ---"
OutcomeLines == {SuccessLine, MissingInputLine, MissingDependencyLine, UnclassifiedLine}

PrintedLine(l) == \E i \in 1..Len(stdout) : stdout[i] = l
OutcomesPrinted == {i \in 1..Len(stdout) : stdout[i] \in OutcomeLines}
DiagnosticPrinted ==
    \/ PrintedLine(MissingInputLine)
    \/ PrintedLine(MissingDependencyLine)
    \/ PrintedLine(UnclassifiedLine)

(***************************************************************************)
(* C1.  A run with a valid checkpoint and the library installed, whose     *)
(* export call returned, ends with the file named by onnx_model_file in    *)
(* the working directory and the success banner printed: the name the      *)
(* banner announces is the name the export wrote.                          *)
(***************************************************************************)
C1_SuccessLeavesAnnouncedFile ==
    ( /\ pc = "done"
      /\ libInstalled
      /\ Exists(pytorch_model_file)
      /\ fs[pytorch_model_file] = "valid"
      /\ ExportReturned )
    => /\ PrintedLine(SuccessLine)
       /\ Exists(onnx_model_file)
       /\ fs[onnx_model_file] = "onnx"

(***************************************************************************)
(* C2.  A run without the library ends with the missing-dependency         *)
(* diagnostic printed, whether or not model.pt exists.                     *)
(***************************************************************************)
C2_MissingDependencyDiagnosed ==
    (Terminated /\ ~libInstalled) => Printed(MissingDependencyDiag)

(***************************************************************************)
(* C3.  A run whose load step raised FileNotFoundError because model.pt    *)
(* is absent never calls export and leaves the directory as it found it,   *)
(* and has printed the missing-input diagnostic when it ends.              *)
(***************************************************************************)
C3_MissingInput ==
    ( /\ ~Exists(pytorch_model_file)
      /\ \E i \in CallsOf("YOLO") : calls[i].result.type = "FileNotFoundError" )
    => /\ ExportAttempts = 0
       /\ fs = startFs
       /\ Terminated =>
            /\ PrintedLine(MissingInputLine)
            /\ \E i \in 1..Len(stdout) :
                 /\ stdout[i] = "--- ERROR ---"
                 /\ i + 4 <= Len(stdout)
                 /\ stdout[i + 1] = MissingInputLine
                 /\ stdout[i + 2] = "Please download 'model.pt' from the GitHub repository"
                 /\ stdout[i + 3] = "and place it in the same folder as this script."
                 /\ stdout[i + 4] = "---"

C3_Witness ==
    /\ pc = "done"
    /\ ~Exists(pytorch_model_file)
    /\ \E i \in CallsOf("YOLO") : calls[i].result.type = "FileNotFoundError"
    /\ Printed(MissingInputDiag)

(***************************************************************************)
(* C4.  A run whose load step, with model.pt present, raised an exception  *)
(* that is neither a FileNotFoundError nor an ImportError never calls      *)
(* export and creates no file, and has printed the unclassified-error      *)
(* header followed by the exception's message when it ends.                *)
(***************************************************************************)
C4_Unclassified ==
    \A i \in CallsOf("YOLO") :
        ( /\ Exists(pytorch_model_file)
          /\ calls[i].result # Ok
          /\ ~IsInstance(calls[i].result.type, "FileNotFoundError")
          /\ ~IsInstance(calls[i].result.type, "ImportError") )
        => /\ ExportAttempts = 0
           /\ fs = startFs
           /\ Terminated =>
                \E j \in 1..Len(stdout) :
                    /\ stdout[j] = UnclassifiedLine
                    /\ j + 1 <= Len(stdout)
                    /\ stdout[j + 1] = calls[i].result.msg

C4_Witness ==
    /\ pc = "done"
    /\ Exists(pytorch_model_file)
    /\ \E i \in CallsOf("YOLO") :
         /\ calls[i].result.type = "RuntimeError"
         /\ calls[i].result.msg = "invalid load key"
    /\ PrintedLine("invalid load key")

(***************************************************************************)
(* C5.  Every run that fails ends by reaching the end of the script: no    *)
(* uncaught exception, and the exit status of a successful run.            *)
(***************************************************************************)
C5_FailureReturnsNormally ==
    (Terminated /\ ~PrintedLine(SuccessLine))
    => /\ pc = "done"
       /\ exitStatus = "0"
       /\ stderr = <<>>

C7_DiagnosticsNameTheirCause ==
    LoadReturned =>
        /\ Printed(MissingInputDiag) => ~Exists(pytorch_model_file)
        /\ Printed(MissingDependencyDiag) => ~libInstalled

(***************************************************************************)
(* C8.  The export call is made only directly after a load call that       *)
(* returned, and with format 'onnx' and imgsz 640; a run whose load raised *)
(* makes no export call and never prints "Model loaded successfully.".     *)
(***************************************************************************)
C8_LoadThenExport ==
    /\ \A i \in CallsOf("export") :
         /\ i > 1
         /\ calls[i - 1].op = "YOLO"
         /\ calls[i - 1].result = Ok
         /\ calls[i].args.format = "onnx"
         /\ calls[i].args.imgsz = 640
         /\ DOMAIN calls[i].args = {"format", "imgsz"}
    /\ LoadRaised =>
         /\ ExportAttempts = 0
         /\ ~PrintedLine("Model loaded successfully.")
    /\ PrintedLine("Model loaded successfully.") => LoadReturned

C8_Witness ==
    /\ Terminated
    /\ LoadReturned
    /\ ExportAttempts = 1
    /\ PrintedLine("Model loaded successfully.")

(***************************************************************************)
(* C9.  A run prints at most one of the four outcome messages; the success *)
(* banner only if both the load and the export returned, and never         *)
(* together with a diagnostic.                                             *)
(***************************************************************************)
C9_OneOutcome ==
    /\ Cardinality(OutcomesPrinted) <= 1
    /\ PrintedLine(SuccessLine) => (LoadReturned /\ ExportReturned /\ ~LoadRaised /\ ~ExportRaised)
    /\ ~(PrintedLine(SuccessLine) /\ DiagnosticPrinted)

C9_Witness ==
    /\ Terminated
    /\ LoadReturned
    /\ ExportRaised
    /\ Cardinality(OutcomesPrinted) = 1
    /\ DiagnosticPrinted

(***************************************************************************)
(* C10.  Every run terminates, with at most one load call and at most one  *)
(* export call made, and with no library call made after one that raised.  *)
(***************************************************************************)
SingleAttempt ==
    /\ LoadAttempts <= 1
    /\ ExportAttempts <= 1
    /\ \A i \in 1..Len(calls) : calls[i].result # Ok => i = Len(calls)

C10_SingleAttemptTerminates ==
    /\ []SingleAttempt
    /\ [](~Terminated ~> Terminated)

C10_Witness ==
    /\ Terminated
    /\ LoadAttempts = 1
    /\ ExportAttempts = 1
    /\ ExportRaised
    /\ run = 1

====
